---- MODULE Spec2Model ----
(***************************************************************************)
(* three-terrain-lod: the quadtree LOD engine (QuadtreeNode), the          *)
(* fixed-capacity instance-slot allocator (InstancePool) and the           *)
(* controller that drives them (TerrainLOD).                               *)
(*                                                                         *)
(* Numbers.  World coordinates are integers: worldSize is 2^MaxLevels, so  *)
(* that every size/2 and size/4 computed by split() is exact.  The LOD     *)
(* distance ratio is a rational with the fixed denominator RatioDen; the   *)
(* field config.lodDistanceRatio holds its numerator.  Distances are kept  *)
(* squared (Math.sqrt is monotone), a missing camera is NoCamera and its   *)
(* distance is Infinity.                                                   *)
(***************************************************************************)
EXTENDS Integers, Sequences, FiniteSets, TLC

VARIABLES
    config,             \* TerrainLOD.config (ResolvedTerrainConfig)
    nodes,              \* the QuadtreeNode objects reachable from root, by path
    hasRoot,            \* TerrainLOD.root !== null
    instancePool,       \* TerrainLOD.instancePool / a stand-alone InstancePool
    needsUpdate,        \* TerrainLOD.needsUpdate
    meshCount,          \* TerrainLOD.instancedMesh.count
    instanceUVTransforms, \* TerrainLOD.instanceUVTransforms, three floats per id
    instanceMatrix,     \* TerrainLOD.instancedMesh.instanceMatrix, one matrix per id
    isInitialized,      \* TerrainLOD.isInitialized
    initPhase,          \* position of the async init(): pending / done / failed
    currentCamera,      \* module-level currentCamera of QuadtreeNode.ts
    collisionCallback,  \* TerrainLOD.collisionCallback !== null
    callbackLog,        \* events delivered to the collision callback so far
    heightMap,          \* TerrainLOD.heightMap: NoTexture or the texture held
    heightmapImageData, \* TerrainLOD.heightmapImageData: NoImageData or a snapshot
    collisionResolution, \* TerrainLOD.collisionResolution
    collisionCache,     \* TerrainLOD.collisionCache, keyed by chunk index <<x, z>>
    computePending,     \* computeAllCollisionData() calls suspended at their await
    lastOp,             \* history: the last operation on the tree or the config
    updates,            \* history: number of update() calls that ran the pass
    poolHist,           \* history: the last calls made on a stand-alone pool
    poolCall,           \* history: the last call on a stand-alone pool, its result
    heightQuery         \* history: the getHeightAt call the last step made, if any

\* the collision subsystem of TerrainLOD
collisionVars == <<heightMap, heightmapImageData, collisionResolution,
                   collisionCache, computePending>>

\* the history of the calls made on a stand-alone pool
poolHistVars == <<poolHist, poolCall>>

\* everything but the pool and its call history
terrainVars == <<config, nodes, hasRoot, needsUpdate, meshCount,
                 instanceUVTransforms, instanceMatrix, isInitialized, initPhase, currentCamera,
                 collisionCallback, callbackLog, collisionVars, lastOp, updates,
                 heightQuery>>

vars == <<config, nodes, hasRoot, instancePool, needsUpdate, meshCount,
          instanceUVTransforms, instanceMatrix, isInitialized, initPhase, currentCamera,
          collisionCallback, callbackLog, collisionVars, lastOp, updates,
          poolHistVars, heightQuery>>

----------------------------------------------------------------------------
(* Bounds *)

MaxLevels == 3

MaxChunks == 5

MaxUpdates == 2

\* stand-alone pool: largest capacity, and longest free list explored
MaxInstances == 2

MaxFree == 2

\* computeAllCollisionData() calls that may be suspended at the same time
MaxPending == 2

\* events delivered to the collision callback in the runs of the emit methods
MaxEvents == 3

----------------------------------------------------------------------------
(* Values *)

RatioDen == 2

worldSize == 2 ^ MaxLevels

\* numerators of the lodDistanceRatio values used: 0, 1 and 2
Ratios == {0, 2, 4}

NoCamera == <<"null">>

\* camera.position (x, z); y is ignored by getDistanceFromCamera
\* in eighths of the world size: (3/8, 3/8), (-3/8, -3/8) and (2/8, 6/8)
CameraPositions ==
    LET u == worldSize \div 8
    IN { <<3 * u, 3 * u>>, <<-3 * u, -3 * u>>, <<2 * u, 6 * u>> }

Cameras == CameraPositions \cup {NoCamera}

\* config.maxChunks: no slot, a single slot, and fewer slots than leaves
ChunkCapacities == {0, 1, MaxChunks}

\* InstancePool.acquire(): null
Null == -2

\* config.maxHeight: the value given at construction and the one set later
MaxHeights == {1, 3}

\* CollisionResolution: the enumerated 32 | 64 | 128, scaled down by 32
Resolutions == {1, 2, 4}

\* config.levels of the terrains whose collision API is explored: a single
\* chunk, and a grid of chunks
CollisionLevels == {1, MaxLevels - 1}

\* the initial value of collisionResolution, the smallest of the enumeration
DefaultCollisionResolution == 1

\* TerrainLOD.heightMap === null
NoTexture == "null"

\* the texture loadTextures() assigns to heightMap
LoadedTexture == "loaded"

\* TerrainLOD.heightmapImageData === null
NoImageData == "null"

\* width and height of the canvas the height snapshot is read from
ImageWidth == 3

\* a texture is named by the image it shows.  One image besides the one
\* loadTextures() loads is used: the texture given to setHeightMap or loaded
\* by loadHeightMap and the canvas given to updateHeightMapFromCanvas show it
SecondImage == "image2"

Textures == {SecondImage}

Canvases == {SecondImage}

\* the red channel of the top left pixel of each image
ImageSeed(image) == IF image = SecondImage THEN 40 ELSE 0

\* heightmapImageData.data[(y * width + x) * 4] of the snapshot of a texture:
\* the red channel, 0..255
ImagePixel(image, x, y) == (ImageSeed(image) + 85 * (x + 2 * y)) % 256

\* node objects are named by integers: the root is 0, the i-th child
\* (i in 1..4, in the order split() lists them) of node p is 4p + i
RootPath == 0

ChildPath(p, i) == 4 * p + i

----------------------------------------------------------------------------
(* InstancePool  (src/unnamed/part_001) *)

NewInstancePool(maxInstances) ==
    [ activeInstances |-> << >>,
      freeIds         |-> << >>,
      nextId          |-> 0,
      maxInstances    |-> maxInstances ]

MapDelete(m, k) == [ i \in (DOMAIN m) \ {k} |-> m[i] ]

MapSet(m, k, v) == [ i \in (DOMAIN m) \cup {k} |-> IF i = k THEN v ELSE m[i] ]

\* acquire with the capacity test off by one (nextId <= maxInstances)
acquire_offByOne(pool) ==
    IF Len(pool.freeIds) > 0
    THEN [ pool |-> [pool EXCEPT !.freeIds = SubSeq(@, 1, Len(@) - 1)],
           id   |-> pool.freeIds[Len(pool.freeIds)] ]
    ELSE IF pool.nextId <= pool.maxInstances
    THEN [ pool |-> [pool EXCEPT !.nextId = @ + 1],
           id   |-> pool.nextId ]
    ELSE [ pool |-> pool, id |-> Null ]

\* acquire taking the oldest waiting id (freeIds.shift()) instead of the newest
acquire_fifo(pool) ==
    IF Len(pool.freeIds) > 0
    THEN [ pool |-> [pool EXCEPT !.freeIds = Tail(@)],
           id   |-> Head(pool.freeIds) ]
    ELSE IF pool.nextId < pool.maxInstances
    THEN [ pool |-> [pool EXCEPT !.nextId = @ + 1],
           id   |-> pool.nextId ]
    ELSE [ pool |-> pool, id |-> Null ]

\* returns the pool after the call and the id returned (Null when exhausted)
acquire(pool) ==
    IF Len(pool.freeIds) > 0
    THEN [ pool |-> [pool EXCEPT !.freeIds = SubSeq(@, 1, Len(@) - 1)],
           id   |-> pool.freeIds[Len(pool.freeIds)] ]
    ELSE IF pool.nextId < pool.maxInstances
    THEN [ pool |-> [pool EXCEPT !.nextId = @ + 1],
           id   |-> pool.nextId ]
    ELSE [ pool |-> pool, id |-> Null ]

release(pool, id) ==
    IF id \in DOMAIN pool.activeInstances
    THEN [pool EXCEPT !.activeInstances = MapDelete(@, id),
                      !.freeIds = Append(@, id)]
    ELSE pool

setData(pool, id, data) ==
    [pool EXCEPT !.activeInstances = MapSet(@, id, data)]

\* Map.get: found is FALSE for undefined, and data is then Null
getData(pool, id) ==
    [ found |-> id \in DOMAIN pool.activeInstances,
      data  |-> IF id \in DOMAIN pool.activeInstances
                THEN pool.activeInstances[id] ELSE Null ]

\* the highest id the counter has issued, bound or not
getHighestActiveId_issued(pool) == pool.nextId - 1

getHighestActiveId(pool) ==
    IF DOMAIN pool.activeInstances = {} THEN -1
    ELSE CHOOSE m \in DOMAIN pool.activeInstances :
            \A i \in DOMAIN pool.activeInstances : i <= m

getStats(pool) ==
    [ active    |-> Cardinality(DOMAIN pool.activeInstances),
      available |-> Len(pool.freeIds),
      total     |-> pool.nextId ]

\* clear that keeps the free list
clear_keepsFreeIds(pool) ==
    [pool EXCEPT !.activeInstances = << >>, !.nextId = 0]

clear(pool) ==
    [pool EXCEPT !.activeInstances = << >>, !.freeIds = << >>, !.nextId = 0]

----------------------------------------------------------------------------
(* TerrainLOD instance management  (src/src/core/TerrainLOD.ts)            *)
(* A pass state st carries what one synchronous call chain mutates:        *)
(* nodes, pool, the UV array, needsUpdate and the events delivered to the  *)
(* callback.                                                               *)

\* new Float32Array(maxChunks * 3), kept as one triple of zeros per id
\* instanceMatrix of new THREE.InstancedMesh(geometry, material, maxChunks):
\* a zero-filled Float32Array.  Of a matrix the translation (y in tenths),
\* the scale on x and z and the element 15 (w) are kept
NewInstanceMatrix(maxChunks) ==
    [ id \in 0..(maxChunks - 1) |->
        [ x |-> 0, y |-> 0, z |-> 0, sx |-> 0, sz |-> 0, w |-> 0 ] ]

\* matrix.compose((data.x, maxHeight * -0.4, data.z), identity,
\*                (data.size, 1, data.size))
composeMatrix(data) ==
    [ x |-> data.x, y |-> -4 * config.maxHeight, z |-> data.z,
      sx |-> data.size, sz |-> data.size, w |-> 1 ]

\* new THREE.Matrix4().scale(new THREE.Vector3(0, 0, 0))
zeroScaleMatrix == [ x |-> 0, y |-> 0, z |-> 0, sx |-> 0, sz |-> 0, w |-> 1 ]

\* InstancedMesh.setMatrixAt(id, matrix); a store past the end of the typed
\* array is dropped
setMatrixAt(m, id, matrix) ==
    IF id \in DOMAIN m THEN [m EXCEPT ![id] = matrix] ELSE m

NewUVTransforms(maxChunks) == [ id \in 0..(maxChunks - 1) |-> <<0, 0, 0>> ]

\* the three stores at offset id * 3; a store past the end of a typed array
\* is dropped
writeUVTransform(uv, id, data) ==
    IF id \in DOMAIN uv
    THEN [uv EXCEPT ![id] = <<data.uvScale, data.uvOffsetX, data.uvOffsetY>>]
    ELSE uv

\* addInstance raising needsUpdate before the pool is asked for an id
addInstance_flagsFirst(st, data) ==
    LET a == acquire(st.pool) IN
    IF a.id = Null
    THEN [ st |-> [st EXCEPT !.pool = a.pool, !.needsUpdate = TRUE], id |-> -1 ]
    ELSE [ st |-> [st EXCEPT !.pool = setData(a.pool, a.id, data),
                             !.matrix = setMatrixAt(@, a.id, composeMatrix(data)),
                             !.uv = writeUVTransform(@, a.id, data),
                             !.needsUpdate = TRUE],
           id |-> a.id ]

\* addInstance without this.needsUpdate = true
addInstance_noFlag(st, data) ==
    LET a == acquire(st.pool) IN
    IF a.id = Null
    THEN [ st |-> [st EXCEPT !.pool = a.pool], id |-> -1 ]
    ELSE [ st |-> [st EXCEPT !.pool = setData(a.pool, a.id, data),
                             !.matrix = setMatrixAt(@, a.id, composeMatrix(data)),
                             !.uv = writeUVTransform(@, a.id, data)],
           id |-> a.id ]

addInstance(st, data) ==
    LET a == acquire(st.pool) IN
    IF a.id = Null
    THEN [ st |-> [st EXCEPT !.pool = a.pool], id |-> -1 ]
    ELSE [ st |-> [st EXCEPT !.pool = setData(a.pool, a.id, data),
                             !.matrix = setMatrixAt(@, a.id, composeMatrix(data)),
                             !.uv = writeUVTransform(@, a.id, data),
                             !.needsUpdate = TRUE],
           id |-> a.id ]

\* removeInstance without the zero-scale matrix
removeInstance_leavesMatrix(st, id) ==
    IF id = -1 THEN st
    ELSE [st EXCEPT !.pool = release(@, id), !.needsUpdate = TRUE]

removeInstance(st, id) ==
    IF id = -1 THEN st
    ELSE [st EXCEPT !.pool = release(@, id),
                    !.matrix = setMatrixAt(@, id, zeroScaleMatrix),
                    !.needsUpdate = TRUE]

----------------------------------------------------------------------------
(* QuadtreeNode  (src/src/core/QuadtreeNode.ts) *)

NewQuadtreeNode(x, z, size, level) ==
    [ x |-> x, z |-> z, size |-> size, level |-> level,
      children |-> << >>, instanceId |-> -1, isLeaf |-> TRUE ]

\* getDistanceFromCamera without the null test: a missing camera reads as
\* a camera at the origin
getDistanceFromCamera_nullAsOrigin(n, cam) ==
    IF cam = NoCamera THEN [ infinite |-> FALSE, squared |-> n.x * n.x + n.z * n.z ]
    ELSE [ infinite |-> FALSE,
           squared  |-> (cam[1] - n.x) * (cam[1] - n.x)
                      + (cam[2] - n.z) * (cam[2] - n.z) ]

\* the planar distance: Infinity when no camera is bound, else its square
getDistanceFromCamera(n, cam) ==
    IF cam = NoCamera THEN [ infinite |-> TRUE, squared |-> 0 ]
    ELSE [ infinite |-> FALSE,
           squared  |-> (cam[1] - n.x) * (cam[1] - n.x)
                      + (cam[2] - n.z) * (cam[2] - n.z) ]

\* the comparison made non-strict (distance <= splitDistance)
distanceBelow_nonStrict(d, n) ==
    LET splitNum == n.size * config.lodDistanceRatio IN
    /\ ~d.infinite
    /\ splitNum >= 0
    /\ RatioDen * RatioDen * d.squared <= splitNum * splitNum

\* distance < splitDistance, with splitDistance = size * ratio / RatioDen
distanceBelow(d, n) ==
    LET splitNum == n.size * config.lodDistanceRatio IN
    /\ ~d.infinite
    /\ splitNum > 0
    /\ RatioDen * RatioDen * d.squared < splitNum * splitNum

\* shouldSplit with the level test off by one (level < levels)
shouldSplit_levelOffByOne(n, cam) ==
    /\ distanceBelow(getDistanceFromCamera(n, cam), n)
    /\ n.level < config.levels

shouldSplit(n, cam) ==
    /\ distanceBelow(getDistanceFromCamera(n, cam), n)
    /\ n.level < config.levels - 1

\* scale, offsetX and offsetY, each as a numerator over worldSize
\* getUVTransform returning the centre of the leaf as its offset
getUVTransform_centre(n) ==
    LET halfWorld == config.worldSize \div 2
    IN [ scale   |-> n.size,
         offsetX |-> n.x + halfWorld,
         offsetY |-> n.z + halfWorld ]

\* scale, offsetX and offsetY are kept as numerators over worldSize
getUVTransform(n) ==
    LET halfWorld == config.worldSize \div 2
    IN [ scale   |-> n.size,
         offsetX |-> (n.x + halfWorld) - n.size \div 2,
         offsetY |-> (n.z + halfWorld) - n.size \div 2 ]

registerInstance(st, p) ==
    LET n == st.nodes[p]
        uvTransform == getUVTransform(n)
        r == addInstance(st, [ x |-> n.x, z |-> n.z, size |-> n.size,
                               uvScale   |-> uvTransform.scale,
                               uvOffsetX |-> uvTransform.offsetX,
                               uvOffsetY |-> uvTransform.offsetY ])
    IN [r.st EXCEPT !.nodes[p].instanceId = r.id]

unregisterInstance(st, p) ==
    IF st.nodes[p].instanceId # -1
    THEN [removeInstance(st, st.nodes[p].instanceId)
             EXCEPT !.nodes[p].instanceId = -1]
    ELSE st

\* children offset by size/2 instead of size/4
childNode_halfOffset(n, i) ==
    LET halfSize == n.size \div 2
        nextLevel == n.level + 1
    IN CASE i = 1 -> NewQuadtreeNode(n.x - halfSize, n.z - halfSize, halfSize, nextLevel)
         [] i = 2 -> NewQuadtreeNode(n.x + halfSize, n.z - halfSize, halfSize, nextLevel)
         [] i = 3 -> NewQuadtreeNode(n.x - halfSize, n.z + halfSize, halfSize, nextLevel)
         [] i = 4 -> NewQuadtreeNode(n.x + halfSize, n.z + halfSize, halfSize, nextLevel)

\* children as large as their parent
childNode_sameSize(n, i) ==
    LET quarterOffset == n.size \div 4
        nextLevel == n.level + 1
    IN CASE i = 1 -> NewQuadtreeNode(n.x - quarterOffset, n.z - quarterOffset, n.size, nextLevel)
         [] i = 2 -> NewQuadtreeNode(n.x + quarterOffset, n.z - quarterOffset, n.size, nextLevel)
         [] i = 3 -> NewQuadtreeNode(n.x - quarterOffset, n.z + quarterOffset, n.size, nextLevel)
         [] i = 4 -> NewQuadtreeNode(n.x + quarterOffset, n.z + quarterOffset, n.size, nextLevel)

\* the i-th of the four QuadtreeNode objects split() constructs for n
childNode(n, i) ==
    LET halfSize == n.size \div 2
        quarterOffset == n.size \div 4
        nextLevel == n.level + 1
    IN CASE i = 1 -> NewQuadtreeNode(n.x - quarterOffset, n.z - quarterOffset, halfSize, nextLevel)
         [] i = 2 -> NewQuadtreeNode(n.x + quarterOffset, n.z - quarterOffset, halfSize, nextLevel)
         [] i = 3 -> NewQuadtreeNode(n.x - quarterOffset, n.z + quarterOffset, halfSize, nextLevel)
         [] i = 4 -> NewQuadtreeNode(n.x + quarterOffset, n.z + quarterOffset, halfSize, nextLevel)

\* split without unregisterInstance(): the node keeps its slot
split_keepsSlot(st, p) ==
    LET s2 == [st EXCEPT !.nodes[p].isLeaf = FALSE]
        n  == s2.nodes[p]
        kids == { ChildPath(p, i) : i \in 1..4 }
    IN [s2 EXCEPT !.nodes =
          [ q \in (DOMAIN s2.nodes) \cup kids |->
              IF q = p THEN [n EXCEPT !.children = [i \in 1..4 |-> ChildPath(p, i)]]
              ELSE IF q \in kids THEN childNode(n, q - 4 * p)
              ELSE s2.nodes[q] ]]

split(st, p) ==
    LET s1 == [st EXCEPT !.nodes[p].isLeaf = FALSE]
        s2 == unregisterInstance(s1, p)
        n  == s2.nodes[p]
        kids == { ChildPath(p, i) : i \in 1..4 }
    IN [s2 EXCEPT !.nodes =
          [ q \in (DOMAIN s2.nodes) \cup kids |->
              IF q = p THEN [n EXCEPT !.children = [i \in 1..4 |-> ChildPath(p, i)]]
              ELSE IF q \in kids THEN childNode(n, q - 4 * p)
              ELSE s2.nodes[q] ]]

RECURSIVE QuadtreeNode_dispose(_, _)
RECURSIVE disposeEach(_, _, _)

\* children.forEach(child => child.dispose()), from the i-th child on
disposeEach(st, kids, i) ==
    IF i > Len(kids) THEN st
    ELSE disposeEach(QuadtreeNode_dispose(st, kids[i]), kids, i + 1)

\* dispose without children.forEach(child => child.dispose())
QuadtreeNode_dispose_shallow(st, p) == unregisterInstance(st, p)

QuadtreeNode_dispose(st, p) ==
    LET s1 == unregisterInstance(st, p)
    IN disposeEach(s1, s1.nodes[p].children, 1)

RECURSIVE IsPrefix(_, _)
\* q is p or lies in the subtree of p
IsPrefix(p, q) ==
    IF q = p THEN TRUE
    ELSE IF q <= p THEN FALSE
    ELSE IsPrefix(p, (q - 1) \div 4)

\* the objects still reachable once p.children is emptied
dropSubtree(ns, p) ==
    [ q \in { q \in DOMAIN ns : q = p \/ ~IsPrefix(p, q) } |-> ns[q] ]

\* merge without this.isLeaf = true
merge_keepsInternal(st, p) ==
    LET s2 == disposeEach(st, st.nodes[p].children, 1)
    IN [s2 EXCEPT !.nodes = dropSubtree([@ EXCEPT ![p].children = << >>], p)]

merge(st, p) ==
    LET s1 == [st EXCEPT !.nodes[p].isLeaf = TRUE]
        s2 == disposeEach(s1, s1.nodes[p].children, 1)
    IN [s2 EXCEPT !.nodes = dropSubtree([@ EXCEPT ![p].children = << >>], p)]

RECURSIVE QuadtreeNode_update(_, _, _)
RECURSIVE updateEach(_, _, _, _)

\* children.forEach(child => child.update()), from the i-th child on
updateEach(st, kids, i, cam) ==
    IF i > Len(kids) THEN st
    ELSE updateEach(QuadtreeNode_update(st, kids[i], cam), kids, i + 1, cam)

\* update without the instanceId === -1 test: a leaf registers on every pass
QuadtreeNode_update_alwaysRegisters(st, p, cam) ==
    IF shouldSplit(st.nodes[p], cam)
    THEN LET s1 == IF st.nodes[p].isLeaf THEN split(st, p) ELSE st
         IN updateEach(s1, s1.nodes[p].children, 1, cam)
    ELSE LET s1 == IF ~st.nodes[p].isLeaf THEN merge(st, p) ELSE st
         IN registerInstance(s1, p)

\* update that registers a node only when it has just merged: a leaf left
\* without a slot is not retried
QuadtreeNode_update_noRetry(st, p, cam) ==
    IF shouldSplit(st.nodes[p], cam)
    THEN LET s1 == IF st.nodes[p].isLeaf THEN split(st, p) ELSE st
         IN updateEach(s1, s1.nodes[p].children, 1, cam)
    ELSE IF ~st.nodes[p].isLeaf THEN registerInstance(merge(st, p), p)
    ELSE st

QuadtreeNode_update(st, p, cam) ==
    IF shouldSplit(st.nodes[p], cam)
    THEN LET s1 == IF st.nodes[p].isLeaf THEN split(st, p) ELSE st
         IN updateEach(s1, s1.nodes[p].children, 1, cam)
    ELSE LET s1 == IF ~st.nodes[p].isLeaf THEN merge(st, p) ELSE st
         IN IF s1.nodes[p].instanceId = -1 THEN registerInstance(s1, p) ELSE s1

----------------------------------------------------------------------------
(* TerrainLOD  (src/src/core/TerrainLOD.ts) *)

\* getHeightAt without the test of u and v against 0 and 1
getHeightAt_noBoundsTest(xNum, zNum, den) ==
    IF heightmapImageData = NoImageData THEN 0
    ELSE LET halfWorld == config.worldSize \div 2
             uNum == xNum + halfWorld * den
             vNum == zNum + halfWorld * den
             one  == den * config.worldSize
             imgX == (uNum * (ImageWidth - 1)) \div one
             imgY == (vNum * (ImageWidth - 1)) \div one
         IN ImagePixel(heightmapImageData, imgX, imgY) * config.maxHeight

\* getHeightAt(worldX, worldZ) with worldX = xNum / den and worldZ = zNum / den;
\* the result is the numerator of the height over 255
getHeightAt(xNum, zNum, den) ==
    IF heightmapImageData = NoImageData THEN 0
    ELSE LET halfWorld == config.worldSize \div 2
             \* u and v as numerators over den * worldSize
             uNum == xNum + halfWorld * den
             vNum == zNum + halfWorld * den
             one  == den * config.worldSize
         IN IF uNum < 0 \/ uNum > one \/ vNum < 0 \/ vNum > one THEN 0
            ELSE LET imgX == (uNum * (ImageWidth - 1)) \div one
                     imgY == (vNum * (ImageWidth - 1)) \div one
                 IN ImagePixel(heightmapImageData, imgX, imgY) * config.maxHeight

\* _generateChunkCollisionData with rows and cols one short (resolution)
generateChunkCollisionData_rowsShort(chunkX, chunkZ, chunkSize, halfWorld) ==
    LET resolution == collisionResolution
        rows == resolution
        cols == resolution
        centerX == chunkX * chunkSize - halfWorld + chunkSize \div 2
        centerZ == chunkZ * chunkSize - halfWorld + chunkSize \div 2
    IN [ position  |-> [ x |-> centerX, y |-> 0, z |-> centerZ ],
         size      |-> chunkSize,
         index     |-> [ x |-> chunkX, z |-> chunkZ ],
         lodLevel  |-> 0,
         rows      |-> rows,
         cols      |-> cols,
         heights   |-> [ k \in 1..(rows * cols) |->
                           LET row == (k - 1) \div cols
                               col == (k - 1) % cols
                           IN getHeightAt(
                                centerX * resolution + col * chunkSize
                                    - (resolution * chunkSize) \div 2,
                                centerZ * resolution + row * chunkSize
                                    - (resolution * chunkSize) \div 2,
                                resolution) ],
         maxHeight |-> config.maxHeight,
         scale     |-> [ x |-> chunkSize, y |-> 1, z |-> chunkSize ] ]

\* _generateChunkCollisionData with the chunk's minimum corner as its centre
generateChunkCollisionData_cornerAsCentre(chunkX, chunkZ, chunkSize, halfWorld) ==
    LET resolution == collisionResolution
        rows == resolution + 1
        cols == resolution + 1
        centerX == chunkX * chunkSize - halfWorld
        centerZ == chunkZ * chunkSize - halfWorld
    IN [ position  |-> [ x |-> centerX, y |-> 0, z |-> centerZ ],
         size      |-> chunkSize,
         index     |-> [ x |-> chunkX, z |-> chunkZ ],
         lodLevel  |-> 0,
         rows      |-> rows,
         cols      |-> cols,
         heights   |-> [ k \in 1..(rows * cols) |->
                           LET row == (k - 1) \div cols
                               col == (k - 1) % cols
                           IN getHeightAt(
                                centerX * resolution + col * chunkSize
                                    - (resolution * chunkSize) \div 2,
                                centerZ * resolution + row * chunkSize
                                    - (resolution * chunkSize) \div 2,
                                resolution) ],
         maxHeight |-> config.maxHeight,
         scale     |-> [ x |-> chunkSize, y |-> 1, z |-> chunkSize ] ]

\* _generateChunkCollisionData: heights[k] is the element row * cols + col of
\* the Float32Array, k = row * cols + col + 1; the sample point
\* center + (col / resolution - 0.5) * chunkSize is kept over resolution
generateChunkCollisionData(chunkX, chunkZ, chunkSize, halfWorld) ==
    LET resolution == collisionResolution
        rows == resolution + 1
        cols == resolution + 1
        centerX == chunkX * chunkSize - halfWorld + chunkSize \div 2
        centerZ == chunkZ * chunkSize - halfWorld + chunkSize \div 2
    IN [ position  |-> [ x |-> centerX, y |-> 0, z |-> centerZ ],
         size      |-> chunkSize,
         index     |-> [ x |-> chunkX, z |-> chunkZ ],
         lodLevel  |-> 0,
         rows      |-> rows,
         cols      |-> cols,
         heights   |-> [ k \in 1..(rows * cols) |->
                           LET row == (k - 1) \div cols
                               col == (k - 1) % cols
                           IN getHeightAt(
                                centerX * resolution + col * chunkSize
                                    - (resolution * chunkSize) \div 2,
                                centerZ * resolution + row * chunkSize
                                    - (resolution * chunkSize) \div 2,
                                resolution) ],
         maxHeight |-> config.maxHeight,
         scale     |-> [ x |-> chunkSize, y |-> 1, z |-> chunkSize ] ]

\* the cache computeAllCollisionData() leaves: cleared, then one entry set
\* for every x and z below numChunks
computeAllCache ==
    LET numChunks == 2 ^ (config.levels - 1)
        chunkSize == config.worldSize \div numChunks
        halfWorld == config.worldSize \div 2
    IN [ key \in (0..(numChunks - 1)) \X (0..(numChunks - 1)) |->
           generateChunkCollisionData(key[1], key[2], chunkSize, halfWorld) ]

\* collisionCache.get(key) ?? null: found is FALSE for null
getChunkCollisionData(x, z) ==
    [ found |-> <<x, z>> \in DOMAIN collisionCache,
      data  |-> IF <<x, z>> \in DOMAIN collisionCache
                THEN collisionCache[<<x, z>>] ELSE Null ]

\* new Map(), and a Map after clear()
EmptyCache == [ key \in {} |-> Null ]

PassState ==
    [ nodes |-> nodes, pool |-> instancePool, uv |-> instanceUVTransforms,
      matrix |-> instanceMatrix,
      needsUpdate |-> needsUpdate, events |-> << >> ]

\* a stand-alone pool has not been called; TerrainLOD's own pool is not
\* tracked call by call
NoPoolCall == [ op |-> "none", id |-> -1, ret |-> Null ]

\* the last step was not a call of getHeightAt
NoHeightQuery == [ called |-> FALSE, x |-> 0, z |-> 0, ret |-> 0 ]

Init ==
    /\ config \in [ worldSize : {worldSize},
                    maxHeight : {1},
                    levels : 1..MaxLevels,
                    lodDistanceRatio : Ratios,
                    maxChunks : ChunkCapacities ]
    /\ nodes = << >>
    /\ hasRoot = FALSE
    /\ instancePool = NewInstancePool(config.maxChunks)
    /\ needsUpdate = FALSE
    /\ meshCount = 0
    /\ instanceUVTransforms = NewUVTransforms(config.maxChunks)
    /\ instanceMatrix = NewInstanceMatrix(config.maxChunks)
    /\ isInitialized = FALSE
    /\ initPhase = "pending"
    /\ currentCamera = NoCamera
    /\ collisionCallback = FALSE
    /\ callbackLog = << >>
    /\ heightMap = NoTexture
    /\ heightmapImageData = NoImageData
    /\ collisionResolution = DefaultCollisionResolution
    /\ collisionCache = EmptyCache
    /\ computePending = << >>
    /\ lastOp = "constructor"
    /\ updates = 0
    /\ poolHist = << >>
    /\ poolCall = NoPoolCall
    /\ heightQuery = NoHeightQuery

\* init() resumes after loadTextures() resolved
InitComplete ==
    /\ initPhase = "pending"
    /\ \E s1 \in { QuadtreeNode_update(
                       [PassState EXCEPT !.nodes = [ q \in {RootPath} |->
                            NewQuadtreeNode(0, 0, config.worldSize, 0) ]],
                       RootPath, currentCamera) } :
          /\ nodes' = s1.nodes
          /\ instancePool' = s1.pool
          /\ instanceUVTransforms' = s1.uv
          /\ instanceMatrix' = s1.matrix
          /\ needsUpdate' = s1.needsUpdate
          /\ callbackLog' = callbackLog \o s1.events
    /\ heightMap' = LoadedTexture
    /\ hasRoot' = TRUE
    /\ isInitialized' = TRUE
    /\ initPhase' = "done"
    /\ lastOp' = "init"
    /\ heightQuery' = NoHeightQuery
    /\ UNCHANGED <<config, meshCount, currentCamera, collisionCallback, updates,
                   heightmapImageData, collisionResolution, collisionCache,
                   computePending, poolHistVars>>

\* init() resumes after loadTextures() rejected: the catch block only logs;
\* the rejected load is the heightmap's (heightMap is not assigned) or the
\* diffuse texture's (heightMap was assigned before it)
InitFail ==
    /\ initPhase = "pending"
    /\ initPhase' = "failed"
    /\ heightMap' \in {heightMap, LoadedTexture}
    /\ lastOp' = "initFailed"
    /\ heightQuery' = NoHeightQuery
    /\ UNCHANGED <<config, nodes, hasRoot, instancePool, needsUpdate, meshCount,
                   instanceUVTransforms, instanceMatrix, isInitialized, currentCamera,
                   collisionCallback, callbackLog, updates, heightmapImageData,
                   collisionResolution, collisionCache, computePending,
                   poolHistVars>>

\* update() testing only this.root
Update_rootTestOnly(camera) ==
    /\ IF hasRoot
       THEN \E s1 \in { QuadtreeNode_update(PassState, RootPath, camera) } :
               /\ updates < MaxUpdates
               /\ updates' = updates + 1
               /\ currentCamera' = camera
               /\ nodes' = s1.nodes
               /\ instancePool' = s1.pool
               /\ instanceUVTransforms' = s1.uv
               /\ instanceMatrix' = s1.matrix
               /\ callbackLog' = callbackLog \o s1.events
               /\ IF s1.needsUpdate
                  THEN /\ meshCount' = getHighestActiveId(s1.pool) + 1
                       /\ needsUpdate' = FALSE
                  ELSE UNCHANGED <<meshCount, needsUpdate>>
               /\ lastOp' = "update"
       ELSE /\ lastOp' = "updateSkipped"
            /\ UNCHANGED <<currentCamera, nodes, instancePool, callbackLog,
                           instanceUVTransforms, instanceMatrix, meshCount, needsUpdate, updates>>
    /\ UNCHANGED <<config, hasRoot, isInitialized, initPhase, collisionCallback,
                   collisionVars, poolHistVars, heightQuery>>

\* at most MaxUpdates calls run the quadtree pass
Update(camera) ==
    /\ IF isInitialized /\ hasRoot
       THEN \E s1 \in { QuadtreeNode_update(PassState, RootPath, camera) } :
               /\ updates < MaxUpdates
               /\ updates' = updates + 1
               /\ currentCamera' = camera
               /\ nodes' = s1.nodes
               /\ instancePool' = s1.pool
               /\ instanceUVTransforms' = s1.uv
               /\ instanceMatrix' = s1.matrix
               /\ callbackLog' = callbackLog \o s1.events
               /\ IF s1.needsUpdate
                  THEN /\ meshCount' = getHighestActiveId(s1.pool) + 1
                       /\ needsUpdate' = FALSE
                  ELSE UNCHANGED <<meshCount, needsUpdate>>
               /\ lastOp' = "update"
       ELSE /\ lastOp' = "updateSkipped"
            /\ UNCHANGED <<currentCamera, nodes, instancePool, callbackLog,
                           instanceUVTransforms, instanceMatrix, meshCount, needsUpdate, updates>>
    /\ UNCHANGED <<config, hasRoot, isInitialized, initPhase, collisionCallback,
                   collisionVars, poolHistVars, heightQuery>>

\* a call with the current ratio changes nothing; only changes are explored
SetLODDistanceRatio(ratio) ==
    /\ ratio # config.lodDistanceRatio
    /\ config' = [config EXCEPT !.lodDistanceRatio = ratio]
    /\ lastOp' = "set"
    /\ UNCHANGED <<nodes, hasRoot, instancePool, needsUpdate, meshCount,
                   instanceUVTransforms, instanceMatrix, isInitialized, initPhase, currentCamera,
                   collisionCallback, callbackLog, updates, collisionVars,
                   poolHistVars, heightQuery>>

\* setCurrentCamera is exported and is called by every TerrainLOD instance's
\* update; only a call made before this instance's init() resumes is visible
\* to it, since its own update overwrites the camera
SetCurrentCamera(camera) ==
    /\ initPhase = "pending"
    /\ currentCamera' = camera
    /\ lastOp' = "set"
    /\ UNCHANGED <<config, nodes, hasRoot, instancePool, needsUpdate, meshCount,
                   instanceUVTransforms, instanceMatrix, isInitialized, initPhase,
                   collisionCallback, callbackLog, updates, collisionVars,
                   poolHistVars, heightQuery>>

SetCollisionCallback(callback) ==
    /\ collisionCallback' = callback
    /\ UNCHANGED <<config, nodes, hasRoot, instancePool, needsUpdate, meshCount,
                   instanceUVTransforms, instanceMatrix, isInitialized, initPhase, currentCamera,
                   callbackLog, lastOp, updates, collisionVars, poolHistVars, heightQuery>>

Dispose ==
    /\ \E s1 \in { IF hasRoot THEN QuadtreeNode_dispose(PassState, RootPath)
                   ELSE PassState } :
          /\ nodes' = s1.nodes
          /\ instancePool' = clear(s1.pool)
          /\ instanceUVTransforms' = s1.uv
          /\ instanceMatrix' = s1.matrix
          /\ needsUpdate' = s1.needsUpdate
    /\ collisionCache' = EmptyCache
    /\ collisionCallback' = FALSE
    /\ heightmapImageData' = NoImageData
    /\ isInitialized' = FALSE
    /\ lastOp' = "dispose"
    /\ heightQuery' = NoHeightQuery
    /\ UNCHANGED <<config, hasRoot, meshCount, initPhase, currentCamera,
                   callbackLog, updates, heightMap, collisionResolution,
                   computePending, poolHistVars>>

Next ==
    \/ InitComplete
    \/ InitFail
    \/ \E camera \in Cameras : Update(camera)
    \/ \E ratio \in Ratios : SetLODDistanceRatio(ratio)
    \/ \E camera \in Cameras : SetCurrentCamera(camera)
    \/ \E callback \in BOOLEAN : SetCollisionCallback(callback)
    \/ Dispose

Spec == Init /\ [][Next]_vars

\* config.maxChunks of terrains with room for every leaf of some tree: the
\* leaves of a tree with one quadrant split again, and of the full tree
SufficientCapacities == {7, 4 ^ (MaxLevels - 1)}

\* the constructor called with one of these capacities
InitSufficient ==
    /\ config \in [ worldSize : {worldSize},
                    maxHeight : {1},
                    levels : 1..MaxLevels,
                    lodDistanceRatio : Ratios,
                    maxChunks : SufficientCapacities ]
    /\ nodes = << >>
    /\ hasRoot = FALSE
    /\ instancePool = NewInstancePool(config.maxChunks)
    /\ needsUpdate = FALSE
    /\ meshCount = 0
    /\ instanceUVTransforms = NewUVTransforms(config.maxChunks)
    /\ instanceMatrix = NewInstanceMatrix(config.maxChunks)
    /\ isInitialized = FALSE
    /\ initPhase = "pending"
    /\ currentCamera = NoCamera
    /\ collisionCallback = FALSE
    /\ callbackLog = << >>
    /\ heightMap = NoTexture
    /\ heightmapImageData = NoImageData
    /\ collisionResolution = DefaultCollisionResolution
    /\ collisionCache = EmptyCache
    /\ computePending = << >>
    /\ lastOp = "constructor"
    /\ updates = 0
    /\ poolHist = << >>
    /\ poolCall = NoPoolCall
    /\ heightQuery = NoHeightQuery

SpecSufficient == InitSufficient /\ [][Next]_vars

----------------------------------------------------------------------------
(* The collision API of TerrainLOD  (src/src/core/TerrainLOD.ts)            *)
(* computeAllCollisionData is an async function: it runs up to its await   *)
(* when called (ComputeAllStart) and its remainder runs as a microtask     *)
(* (ComputeAllResume), after the synchronous code that follows the call.   *)
(* Suspended calls resume in the order in which they were made.  Each      *)
(* suspended call carries one history flag: whether setCollisionResolution *)
(* has been called since it was made.                                      *)

\* setCollisionResolution without collisionCache.clear()
SetCollisionResolution_keepsCache(resolution) ==
    /\ collisionResolution' = resolution
    /\ computePending' =
          [ i \in DOMAIN computePending |-> [ resolutionSet |-> TRUE ] ]
    /\ lastOp' = "setCollisionResolution"
    /\ heightQuery' = NoHeightQuery
    /\ UNCHANGED <<config, nodes, hasRoot, instancePool, needsUpdate, meshCount,
                   instanceUVTransforms, instanceMatrix, isInitialized, initPhase, currentCamera,
                   collisionCallback, callbackLog, updates, heightMap,
                   heightmapImageData, collisionCache, poolHistVars>>

SetCollisionResolution(resolution) ==
    /\ collisionResolution' = resolution
    /\ collisionCache' = EmptyCache
    /\ computePending' =
          [ i \in DOMAIN computePending |-> [ resolutionSet |-> TRUE ] ]
    /\ lastOp' = "setCollisionResolution"
    /\ heightQuery' = NoHeightQuery
    /\ UNCHANGED <<config, nodes, hasRoot, instancePool, needsUpdate, meshCount,
                   instanceUVTransforms, instanceMatrix, isInitialized, initPhase, currentCamera,
                   collisionCallback, callbackLog, updates, heightMap,
                   heightmapImageData, poolHistVars>>

\* a call with the current height changes nothing; only changes are explored
SetMaxHeight(height) ==
    /\ height # config.maxHeight
    /\ config' = [config EXCEPT !.maxHeight = height]
    /\ lastOp' = "setMaxHeight"
    /\ heightQuery' = NoHeightQuery
    /\ UNCHANGED <<nodes, hasRoot, instancePool, needsUpdate, meshCount,
                   instanceUVTransforms, instanceMatrix, isInitialized, initPhase, currentCamera,
                   collisionCallback, callbackLog, updates, collisionVars,
                   poolHistVars>>

\* computeAllCollisionData() without the test of this.heightMap
ComputeAllStart_noHeightMapTest ==
    /\ Len(computePending) < MaxPending
    /\ heightmapImageData' =
          IF heightmapImageData # NoImageData THEN heightmapImageData
          ELSE heightMap
    /\ computePending' = Append(computePending, [ resolutionSet |-> FALSE ])
    /\ lastOp' = "computeAllStart"
    /\ heightQuery' = NoHeightQuery
    /\ UNCHANGED <<config, nodes, hasRoot, instancePool, needsUpdate, meshCount,
                   instanceUVTransforms, instanceMatrix, isInitialized, initPhase, currentCamera,
                   collisionCallback, callbackLog, updates, heightMap,
                   collisionResolution, collisionCache, poolHistVars>>

\* the call of computeAllCollisionData(): it throws without a heightmap, else
\* _extractHeightmapImageData() runs (it keeps a snapshot already held)
\* and the call is suspended
ComputeAllStart ==
    /\ IF heightMap = NoTexture
       THEN /\ lastOp' = "computeAllRejected"
            /\ UNCHANGED <<heightmapImageData, computePending>>
       ELSE /\ Len(computePending) < MaxPending
            /\ heightmapImageData' =
                  IF heightmapImageData # NoImageData THEN heightmapImageData
                  ELSE heightMap
            /\ computePending' =
                  Append(computePending, [ resolutionSet |-> FALSE ])
            /\ lastOp' = "computeAllStart"
    /\ heightQuery' = NoHeightQuery
    /\ UNCHANGED <<config, nodes, hasRoot, instancePool, needsUpdate, meshCount,
                   instanceUVTransforms, instanceMatrix, isInitialized, initPhase, currentCamera,
                   collisionCallback, callbackLog, updates, heightMap,
                   collisionResolution, collisionCache, poolHistVars>>

\* the remainder of the oldest suspended computeAllCollisionData(); lastOp
\* tells whether the cache it cleared held entries
ComputeAllResume ==
    /\ computePending # << >>
    /\ computePending' = Tail(computePending)
    /\ collisionCache' = computeAllCache
    /\ lastOp' = IF DOMAIN collisionCache = {} THEN "computeAll"
                 ELSE "computeAllOver"
    /\ heightQuery' = NoHeightQuery
    /\ UNCHANGED <<config, nodes, hasRoot, instancePool, needsUpdate, meshCount,
                   instanceUVTransforms, instanceMatrix, isInitialized, initPhase, currentCamera,
                   collisionCallback, callbackLog, updates, heightMap,
                   heightmapImageData, collisionResolution, poolHistVars>>

\* setHeightMap(texture, invalidateCollision); the disposal of the texture
\* replaced and the material are not part of the state
SetHeightMap(texture, invalidateCollision) ==
    /\ heightMap' = texture
    /\ IF invalidateCollision
       THEN /\ collisionCache' = EmptyCache
            /\ heightmapImageData' = NoImageData
       ELSE UNCHANGED <<collisionCache, heightmapImageData>>
    /\ lastOp' = "setHeightMap"
    /\ heightQuery' = NoHeightQuery
    /\ UNCHANGED <<config, nodes, hasRoot, instancePool, needsUpdate, meshCount,
                   instanceUVTransforms, instanceMatrix, isInitialized, initPhase, currentCamera,
                   collisionCallback, callbackLog, updates, collisionResolution,
                   computePending, poolHistVars>>

\* updateHeightMapFromCanvas(canvas, invalidateCollision): each of its three
\* branches (no heightmap, a CanvasTexture, another texture) leaves a
\* CanvasTexture that shows the canvas
UpdateHeightMapFromCanvas(canvas, invalidateCollision) ==
    /\ heightMap' = canvas
    /\ IF invalidateCollision
       THEN /\ collisionCache' = EmptyCache
            /\ heightmapImageData' = NoImageData
       ELSE UNCHANGED <<collisionCache, heightmapImageData>>
    /\ lastOp' = "updateHeightMapFromCanvas"
    /\ heightQuery' = NoHeightQuery
    /\ UNCHANGED <<config, nodes, hasRoot, instancePool, needsUpdate, meshCount,
                   instanceUVTransforms, instanceMatrix, isInitialized, initPhase, currentCamera,
                   collisionCallback, callbackLog, updates, collisionResolution,
                   computePending, poolHistVars>>

\* loadHeightMap(url, invalidateCollision) resumes after loadAsync resolved
\* and calls setHeightMap; the call itself changes nothing before its await,
\* and config.heightMapUrl is not part of the state
LoadHeightMap(texture, invalidateCollision) ==
    /\ heightMap' = texture
    /\ IF invalidateCollision
       THEN /\ collisionCache' = EmptyCache
            /\ heightmapImageData' = NoImageData
       ELSE UNCHANGED <<collisionCache, heightmapImageData>>
    /\ lastOp' = "loadHeightMap"
    /\ heightQuery' = NoHeightQuery
    /\ UNCHANGED <<config, nodes, hasRoot, instancePool, needsUpdate, meshCount,
                   instanceUVTransforms, instanceMatrix, isInitialized, initPhase, currentCamera,
                   collisionCallback, callbackLog, updates, collisionResolution,
                   computePending, poolHistVars>>

\* world coordinates passed to getHeightAt: the centre, two corners of the
\* world square, and points past its edge on one axis and on both
QueryPoints ==
    LET h == worldSize \div 2
    IN { <<0, 0>>, <<-h, -h>>, <<h, h>>, <<-h - 1, 0>>, <<0, h + 1>>,
         <<h + 1, -h - 1>> }

\* a call of getHeightAt(x, z)
GetHeightAt(x, z) ==
    /\ heightQuery' = [ called |-> TRUE, x |-> x, z |-> z,
                        ret |-> getHeightAt(x, z, 1) ]
    /\ lastOp' = "getHeightAt"
    /\ UNCHANGED <<config, nodes, hasRoot, instancePool, needsUpdate, meshCount,
                   instanceUVTransforms, instanceMatrix, isInitialized, initPhase, currentCamera,
                   collisionCallback, callbackLog, updates, collisionVars,
                   poolHistVars>>

InitCollision ==
    /\ config \in [ worldSize : {worldSize},
                    maxHeight : {1},
                    levels : CollisionLevels,
                    lodDistanceRatio : {2 * RatioDen},
                    maxChunks : {1} ]
    /\ nodes = << >>
    /\ hasRoot = FALSE
    /\ instancePool = NewInstancePool(config.maxChunks)
    /\ needsUpdate = FALSE
    /\ meshCount = 0
    /\ instanceUVTransforms = NewUVTransforms(config.maxChunks)
    /\ instanceMatrix = NewInstanceMatrix(config.maxChunks)
    /\ isInitialized = FALSE
    /\ initPhase = "pending"
    /\ currentCamera = NoCamera
    /\ collisionCallback = FALSE
    /\ callbackLog = << >>
    /\ heightMap = NoTexture
    /\ heightmapImageData = NoImageData
    /\ collisionResolution = DefaultCollisionResolution
    /\ collisionCache = EmptyCache
    /\ computePending = << >>
    /\ lastOp = "constructor"
    /\ updates = 0
    /\ poolHist = << >>
    /\ poolCall = NoPoolCall
    /\ heightQuery = NoHeightQuery

NextCollision ==
    \/ InitComplete
    \/ InitFail
    \/ \E resolution \in Resolutions : SetCollisionResolution(resolution)
    \/ \E height \in MaxHeights : SetMaxHeight(height)
    \/ ComputeAllStart
    \/ ComputeAllResume
    \/ \E texture \in Textures, invalidateCollision \in BOOLEAN :
          SetHeightMap(texture, invalidateCollision)
    \/ \E canvas \in Canvases, invalidateCollision \in BOOLEAN :
          UpdateHeightMapFromCanvas(canvas, invalidateCollision)
    \/ \E texture \in Textures, invalidateCollision \in BOOLEAN :
          LoadHeightMap(texture, invalidateCollision)
    \/ \E q \in QueryPoints : GetHeightAt(q[1], q[2])
    \/ Dispose

SpecCollision == InitCollision /\ [][NextCollision]_vars

\* chunk indices the emit methods are called with
EmitIndices == { <<0, 0>>, <<1, 0>> }

\* _emitChunkEnterLOD0(x, z): delivered when the data is cached and a
\* callback is registered
EmitChunkEnterLOD0(x, z) ==
    /\ Len(callbackLog) < MaxEvents
    /\ callbackLog' =
          IF getChunkCollisionData(x, z).found /\ collisionCallback
          THEN Append(callbackLog, [kind |-> "enter", index |-> <<x, z>>])
          ELSE callbackLog
    /\ lastOp' = "_emitChunkEnterLOD0"
    /\ UNCHANGED <<config, nodes, hasRoot, instancePool, needsUpdate, meshCount,
                   instanceUVTransforms, instanceMatrix, isInitialized, initPhase,
                   currentCamera, collisionCallback, updates, collisionVars,
                   poolHistVars, heightQuery>>

\* _emitChunkExitLOD0(x, z): delivered when a callback is registered
EmitChunkExitLOD0(x, z) ==
    /\ Len(callbackLog) < MaxEvents
    /\ callbackLog' =
          IF collisionCallback
          THEN Append(callbackLog, [kind |-> "exit", index |-> <<x, z>>])
          ELSE callbackLog
    /\ lastOp' = "_emitChunkExitLOD0"
    /\ UNCHANGED <<config, nodes, hasRoot, instancePool, needsUpdate, meshCount,
                   instanceUVTransforms, instanceMatrix, isInitialized, initPhase,
                   currentCamera, collisionCallback, updates, collisionVars,
                   poolHistVars, heightQuery>>

\* the emit methods with the operations that change the cache and the
\* callback
NextEmit ==
    \/ InitComplete
    \/ \E resolution \in Resolutions : SetCollisionResolution(resolution)
    \/ ComputeAllStart
    \/ ComputeAllResume
    \/ \E callback \in BOOLEAN : SetCollisionCallback(callback)
    \/ \E c \in EmitIndices : EmitChunkEnterLOD0(c[1], c[2])
    \/ \E c \in EmitIndices : EmitChunkExitLOD0(c[1], c[2])

SpecEmit == InitCollision /\ [][NextEmit]_vars

----------------------------------------------------------------------------
(* A stand-alone InstancePool driven through its public methods            *)
(* (InstancePool is exported by src/src/index.ts).                         *)

\* ids passed by the caller: every issuable id and one that is never issued
PoolIds == 0..MaxInstances

PoolData == {"d1", "d2"}

InitPool ==
    /\ config = [ worldSize |-> worldSize, maxHeight |-> 1, levels |-> 1,
                  lodDistanceRatio |-> 2 * RatioDen, maxChunks |-> 0 ]
    /\ nodes = << >>
    /\ hasRoot = FALSE
    /\ instancePool \in { NewInstancePool(m) : m \in 0..MaxInstances }
    /\ needsUpdate = FALSE
    /\ meshCount = 0
    /\ instanceUVTransforms = NewUVTransforms(0)
    /\ instanceMatrix = NewInstanceMatrix(0)
    /\ isInitialized = FALSE
    /\ initPhase = "pending"
    /\ currentCamera = NoCamera
    /\ collisionCallback = FALSE
    /\ callbackLog = << >>
    /\ heightMap = NoTexture
    /\ heightmapImageData = NoImageData
    /\ collisionResolution = DefaultCollisionResolution
    /\ collisionCache = EmptyCache
    /\ computePending = << >>
    /\ lastOp = "constructor"
    /\ updates = 0
    /\ poolHist = << >>
    /\ poolCall = NoPoolCall
    /\ heightQuery = NoHeightQuery

\* poolHist keeps the calls made since the last acquire for as long as they
\* form the sequence  a = acquire(); release(a); acquire()
PoolAcquire ==
    /\ \E r \in { acquire(instancePool) } :
          /\ instancePool' = r.pool
          /\ poolHist' =
                IF Len(poolHist) = 2
                THEN Append(poolHist, [op |-> "acquire", id |-> r.id])
                ELSE << [op |-> "acquire", id |-> r.id] >>
          /\ poolCall' = [ op |-> "acquire", id |-> -1, ret |-> r.id ]
    /\ UNCHANGED terrainVars

PoolRelease(id) ==
    /\ Len(instancePool.freeIds) < MaxFree
    /\ instancePool' = release(instancePool, id)
    /\ poolHist' =
          IF Len(poolHist) = 1 /\ poolHist[1].id = id
          THEN Append(poolHist, [op |-> "release", id |-> id])
          ELSE << >>
    /\ poolCall' = [ op |-> "release", id |-> id, ret |-> Null ]
    /\ UNCHANGED terrainVars

PoolSetData(id, data) ==
    /\ instancePool' = setData(instancePool, id, data)
    /\ poolHist' = << >>
    /\ poolCall' = [ op |-> "setData", id |-> id, ret |-> Null ]
    /\ UNCHANGED terrainVars

\* ret is 1 when getData found data and Null when it returned undefined
PoolGetData(id) ==
    /\ poolCall' = [ op |-> "getData", id |-> id,
                     ret |-> IF getData(instancePool, id).found THEN 1 ELSE Null ]
    /\ poolHist' = << >>
    /\ UNCHANGED <<terrainVars, instancePool>>

NextPool ==
    \/ PoolAcquire
    \/ \E id \in PoolIds : PoolRelease(id)
    \/ \E id \in PoolIds, data \in PoolData : PoolSetData(id, data)
    \/ \E id \in PoolIds : PoolGetData(id)

SpecPool == InitPool /\ [][NextPool]_vars

\* C3: after a = acquire() succeeded, release(a) directly followed by
\* acquire() returns a again.
C3_RoundTrip ==
    ( /\ Len(poolHist) = 3
      /\ poolHist[1].id # Null )
    => poolHist[3].id = poolHist[1].id

----------------------------------------------------------------------------
(* Properties of the terrain (checked under Spec) *)

Paths == DOMAIN nodes

Leaves == { p \in Paths : nodes[p].isLeaf }

BoundIds == DOMAIN instancePool.activeInstances

\* the last operation ran the quadtree pass of update()
AfterUpdate == lastOp = "update"

\* C1: no two nodes hold the same instanceId other than -1, every held
\* instanceId lies in [0, maxChunks), and the pool never has more than
\* maxChunks bound ids.
C1_SlotsUniqueAndBounded ==
    /\ \A p, q \in Paths :
          (p # q /\ nodes[p].instanceId # -1)
             => nodes[p].instanceId # nodes[q].instanceId
    /\ \A p \in Paths :
          nodes[p].instanceId # -1
             => (0 <= nodes[p].instanceId /\ nodes[p].instanceId < config.maxChunks)
    /\ Cardinality(BoundIds) <= config.maxChunks

\* an update ran out of slots: the pool is full and a leaf went without
C1_Witness ==
    /\ AfterUpdate
    /\ config.maxChunks >= 2
    /\ Cardinality(BoundIds) = config.maxChunks
    /\ instancePool.freeIds = << >>
    /\ \E p \in Leaves : nodes[p].instanceId = -1
    /\ \E p \in Leaves : nodes[p].instanceId = config.maxChunks - 1

\* the quadtree pass of update() run once more with the same camera
UpdateAgain == QuadtreeNode_update(PassState, RootPath, currentCamera)

\* C2 as stated: a second update with the same viewer position changes
\* nothing: same nodes, same leaf/internal status, same instanceId on every
\* node, no acquire and no release.
C2_SecondUpdateChangesNothing ==
    AfterUpdate =>
        LET r == UpdateAgain
        IN r.nodes = nodes /\ r.pool = instancePool

\* C2 amended: the second update splits, merges and releases nothing, and
\* every node keeps the instanceId it holds; when every leaf holds a slot
\* after the first update the second changes nothing at all.
C2_SecondUpdateKeepsStructureAndSlots ==
    AfterUpdate =>
        LET r == UpdateAgain
        IN /\ DOMAIN r.nodes = Paths
           /\ \A p \in Paths :
                 /\ r.nodes[p].isLeaf = nodes[p].isLeaf
                 /\ r.nodes[p].children = nodes[p].children
                 /\ nodes[p].instanceId # -1
                       => r.nodes[p].instanceId = nodes[p].instanceId
           /\ \A id \in BoundIds :
                 /\ id \in DOMAIN r.pool.activeInstances
                 /\ r.pool.activeInstances[id] = instancePool.activeInstances[id]
           /\ (\A p \in Leaves : nodes[p].instanceId # -1)
                 => (r.nodes = nodes /\ r.pool = instancePool)

\* a settled split tree whose slots were recycled and whose leaves all hold one
C2_Witness ==
    /\ AfterUpdate
    /\ \E p \in Paths : ~nodes[p].isLeaf
    /\ \A p \in Leaves : nodes[p].instanceId # -1
    /\ instancePool.freeIds # << >>

\* chunk index (x, z) of a node of the finest level
ChunkIndex(n) ==
    LET halfWorld == config.worldSize \div 2
    IN << (n.x + halfWorld - n.size \div 2) \div n.size,
          (n.z + halfWorld - n.size \div 2) \div n.size >>

\* the chunk indices whose finest-level leaf holds a slot
FinestAssigned(ns) ==
    { ChunkIndex(ns[p]) :
        p \in { q \in DOMAIN ns : /\ ns[q].level = config.levels - 1
                                  /\ ns[q].isLeaf
                                  /\ ns[q].instanceId # -1 } }

CountEvents(log, from, kind, c) ==
    Cardinality({ i \in (from + 1)..Len(log) : log[i] = [kind |-> kind, index |-> c] })

\* C4: with a callback registered, an update delivers exactly one
\* onChunkEnterLOD0 for every chunk whose finest-level node became
\* slot-assigned in it, and exactly one onChunkExitLOD0 for every chunk whose
\* node stopped being a slot-assigned finest-level leaf in it.
C4_EnterExitDelivered ==
    [][ (updates' # updates /\ lastOp' = "update" /\ collisionCallback)
          => \A c \in FinestAssigned(nodes) \cup FinestAssigned(nodes') :
                /\ (c \notin FinestAssigned(nodes))
                      => CountEvents(callbackLog', Len(callbackLog), "enter", c) = 1
                /\ (c \notin FinestAssigned(nodes'))
                      => CountEvents(callbackLog', Len(callbackLog), "exit", c) = 1
      ]_vars

\* C5: after every update the root holds a slot or has children.
C5_RootNeverAbsent ==
    AfterUpdate =>
        \/ nodes[RootPath].instanceId # -1
        \/ nodes[RootPath].children # << >>

\* the unit cells of the world square covered by node n
Footprint(n) ==
    { <<i, j>> : i \in (n.x - n.size \div 2)..(n.x + n.size \div 2 - 1),
                 j \in (n.z - n.size \div 2)..(n.z + n.size \div 2 - 1) }

\* C6: every node has isLeaf == (children.length == 0), and an internal
\* node has exactly 4 children of half its size at level + 1, centred at
\* (x +- size/4, z +- size/4), whose squares tile its square.
C6_ChildrenTileParent ==
    \A p \in Paths :
        LET n == nodes[p] IN
        /\ n.isLeaf = (Len(n.children) = 0)
        /\ ~n.isLeaf =>
              /\ Len(n.children) = 4
              /\ \A i \in 1..4 :
                    /\ n.children[i] \in Paths
                    /\ 2 * nodes[n.children[i]].size = n.size
                    /\ nodes[n.children[i]].level = n.level + 1
              /\ { <<nodes[n.children[i]].x, nodes[n.children[i]].z>> : i \in 1..4 }
                    = { <<n.x + dx * (n.size \div 4), n.z + dz * (n.size \div 4)>> :
                          dx \in {-1, 1}, dz \in {-1, 1} }
              /\ UNION { Footprint(nodes[n.children[i]]) : i \in 1..4 } = Footprint(n)
              /\ \A i, j \in 1..4 :
                    i # j => Footprint(nodes[n.children[i]])
                               \cap Footprint(nodes[n.children[j]]) = {}

\* a tree split two levels deep
C6_Witness ==
    \E p \in Paths : ~nodes[p].isLeaf /\ nodes[p].level >= 1

\* C7: an internal node holds no slot, and every bound id is held by a leaf
\* (the slot of a leaf that split went back to the pool).
C7_InternalHoldsNoSlot ==
    /\ \A p \in Paths : ~nodes[p].isLeaf => nodes[p].instanceId = -1
    /\ \A id \in BoundIds : \E p \in Leaves : nodes[p].instanceId = id

\* the root held slot 0, split, and its first child took slot 0 over
C7_Witness ==
    /\ AfterUpdate
    /\ ~nodes[RootPath].isLeaf
    /\ nodes[ChildPath(RootPath, 1)].instanceId = 0
    /\ instancePool.nextId >= 2

\* distance(n, cam) < n.size * lodDistanceRatio, on the squares
Closer(n, cam) ==
    /\ cam # NoCamera
    /\ n.size * config.lodDistanceRatio > 0
    /\ RatioDen * RatioDen
          * ((cam[1] - n.x) * (cam[1] - n.x) + (cam[2] - n.z) * (cam[2] - n.z))
       < (n.size * config.lodDistanceRatio) * (n.size * config.lodDistanceRatio)

\* distance(n, cam) = n.size * lodDistanceRatio
AtThreshold(n, cam) ==
    /\ cam # NoCamera
    /\ n.size * config.lodDistanceRatio > 0
    /\ RatioDen * RatioDen
          * ((cam[1] - n.x) * (cam[1] - n.x) + (cam[2] - n.z) * (cam[2] - n.z))
       = (n.size * config.lodDistanceRatio) * (n.size * config.lodDistanceRatio)

\* C8: when update(p) returns, a node is internal iff its distance to p is
\* strictly below size * lodDistanceRatio and its level is below levels - 1.
C8_TreeSettled ==
    AfterUpdate =>
        \A p \in Paths :
            ~nodes[p].isLeaf
               <=> (Closer(nodes[p], currentCamera)
                      /\ nodes[p].level < config.levels - 1)

\* a node above the finest level exactly at its threshold stays a leaf
C8_Witness ==
    /\ AfterUpdate
    /\ \E p \in Leaves : /\ AtThreshold(nodes[p], currentCamera)
                         /\ nodes[p].level < config.levels - 1
    /\ \E p \in Paths : ~nodes[p].isLeaf

\* C9: with no camera bound, the pass leaves the root a single leaf.
C9_NoCameraNoSplit ==
    ((lastOp = "update" \/ lastOp = "init") /\ currentCamera = NoCamera)
        => (Paths = {RootPath} /\ nodes[RootPath].isLeaf)

\* update without a camera merged a split tree back: the slots of the
\* merged leaves are in the free list
C9_Witness ==
    /\ AfterUpdate
    /\ currentCamera = NoCamera
    /\ config.lodDistanceRatio > 0
    /\ config.levels >= 2
    /\ Len(instancePool.freeIds) >= 2
    /\ Paths = {RootPath}

\* C10: every node has 0 <= level <= levels - 1, the root has level 0 and a
\* node at level levels - 1 is a leaf.
C10_DepthBounded ==
    /\ \A p \in Paths :
          /\ 0 <= nodes[p].level
          /\ nodes[p].level <= config.levels - 1
          /\ nodes[p].level = config.levels - 1 => nodes[p].isLeaf
    /\ hasRoot => nodes[RootPath].level = 0

\* a finest-level node close enough to split, had it not been at the last level
C10_Witness ==
    /\ AfterUpdate
    /\ config.levels >= 3
    /\ \E p \in Leaves : /\ nodes[p].level = config.levels - 1
                         /\ Closer(nodes[p], currentCamera)

----------------------------------------------------------------------------
(* Exhaustion of the pool (C11 under SpecPool, C12 and C13 under Spec) *)

\* the counter has issued maxInstances ids and no released id is waiting
Exhausted(pool) ==
    pool.nextId = pool.maxInstances /\ pool.freeIds = << >>

\* C11: acquire() returns null only when the number of ids issued by the
\* counter equals the capacity and the free list is empty; in every other
\* state it returns an id in [0, capacity).
C11_NullOnlyWhenExhausted ==
    LET r == acquire(instancePool)
    IN /\ (r.id = Null) <=> Exhausted(instancePool)
       /\ ~Exhausted(instancePool)
             => (0 <= r.id /\ r.id < instancePool.maxInstances)

\* the leaves that hold no slot
Slotless(ns) == { p \in DOMAIN ns : ns[p].isLeaf /\ ns[p].instanceId = -1 }

\* the Render Slot Record registerInstance() passes to addInstance() for n
SlotRecord(n) ==
    [ x |-> n.x, z |-> n.z, size |-> n.size,
      uvScale   |-> getUVTransform(n).scale,
      uvOffsetX |-> getUVTransform(n).offsetX,
      uvOffsetY |-> getUVTransform(n).offsetY ]

\* every node of ns has taken the decision update() takes for camera cam
SettledFor(ns, cam) ==
    \A p \in DOMAIN ns :
        ~ns[p].isLeaf <=> (Closer(ns[p], cam) /\ ns[p].level < config.levels - 1)

\* C12: when a leaf that should not split is updated while the pool is
\* exhausted, addInstance returns -1, the leaf keeps instanceId -1 and the
\* nodes, the pool, the UV array and needsUpdate are unchanged; the next
\* pass, if it leaves some leaf without a slot, still brings every node to
\* the decision update() takes for the camera.
C12_ExhaustionIsNotFatal ==
    hasRoot =>
        /\ \A p \in Slotless(nodes), cam \in Cameras :
              (Exhausted(instancePool) /\ ~shouldSplit(nodes[p], cam))
                 => /\ addInstance(PassState, SlotRecord(nodes[p])).id = -1
                    /\ QuadtreeNode_update(PassState, p, cam) = PassState
        /\ LET r == UpdateAgain
           IN Slotless(r.nodes) # {} => SettledFor(r.nodes, currentCamera)

\* a leaf went without a slot and the pass went on: a merge later in the same
\* update released ids, so the pool ends the update with a waiting id
C12_Witness ==
    /\ AfterUpdate
    /\ Slotless(nodes) # {}
    /\ instancePool.freeIds # << >>
    /\ ~needsUpdate

\* the ids acquire() can still hand out: waiting ones and never-issued ones
Available(pool) == Len(pool.freeIds) + (pool.maxInstances - pool.nextId)

\* C13: a slot-less leaf that does not split is given a slot by update()
\* exactly when the pool has a waiting or never-issued id as it is visited,
\* and it is the id acquire() returns; an update repeated with the same
\* camera serves as many slot-less leaves as the pool has ids for.
C13_SlotlessLeafRetried ==
    hasRoot =>
        /\ \A p \in Slotless(nodes), cam \in Cameras :
              ~shouldSplit(nodes[p], cam) =>
                 LET r == QuadtreeNode_update(PassState, p, cam)
                 IN IF Exhausted(instancePool)
                    THEN r.nodes[p].instanceId = -1
                    ELSE /\ r.nodes[p].instanceId = acquire(instancePool).id
                         /\ r.nodes[p].instanceId \in DOMAIN r.pool.activeInstances
        /\ AfterUpdate =>
              LET r == UpdateAgain
                  left == Cardinality(Slotless(nodes)) - Available(instancePool)
              IN Cardinality(Slotless(r.nodes)) = IF left > 0 THEN left ELSE 0

\* after an update some leaves are slot-less and the pool has ids for some of
\* them only: the next update gives a slot to one and leaves another without
C13_Witness ==
    /\ AfterUpdate
    /\ Available(instancePool) >= 1
    /\ Cardinality(Slotless(nodes)) > Available(instancePool)
    /\ \E p \in Slotless(nodes) : UpdateAgain.nodes[p].instanceId # -1
    /\ \E p \in Slotless(nodes) : UpdateAgain.nodes[p].instanceId = -1

----------------------------------------------------------------------------
(* Properties of the pool (checked under SpecPool) *)

\* the ids waiting in the free list
FreeSet(pool) == { pool.freeIds[i] : i \in DOMAIN pool.freeIds }

\* C14: release(id) on an id that is already free (it waits in the free
\* list) or that has no bound data changes nothing: same bound set, same free
\* list, same counter; and releasing an id twice leaves the pool as
\* releasing it once does.
C14_ReleaseOfFreeIdChangesNothing ==
    \A id \in PoolIds :
        /\ (id \in FreeSet(instancePool) \/ id \notin BoundIds)
              => release(instancePool, id) = instancePool
        /\ release(release(instancePool, id), id) = release(instancePool, id)

\* C15: after release(id), for as long as the id has not been acquired again
\* (release(id) was the last call, or the id waits in the free list),
\* getData(id) returns undefined after the next call too.
C15_NoDataUntilAcquiredAgain ==
    [][ \A id \in PoolIds :
          ( \/ (poolCall.op = "release" /\ poolCall.id = id)
            \/ id \in FreeSet(instancePool) )
             => ~getData(instancePool', id).found
      ]_vars

\* C16: getHighestActiveId() is -1 when no id is bound and else the largest
\* bound id; releasing that id makes it smaller.
C16_HighestIsLargestBound ==
    LET h == getHighestActiveId(instancePool)
    IN IF BoundIds = {} THEN h = -1
       ELSE /\ h \in BoundIds
            /\ \A id \in BoundIds : id <= h
            /\ getHighestActiveId(release(instancePool, h)) < h

\* the highest bound id was released while a lower id stays bound
C16_Witness ==
    /\ poolCall.op = "release"
    /\ poolCall.id \in FreeSet(instancePool)
    /\ BoundIds # {}
    /\ getHighestActiveId(instancePool) < poolCall.id
    /\ getHighestActiveId(instancePool) >= 0

\* C17: an effective release puts its id on top of the waiting ids; acquire
\* returns the id on top (the most recently released one) and leaves the
\* counter alone while an id is waiting, and else returns the counter, which
\* it advances by one: 0, 1, 2, ... up to capacity - 1.
C17_CounterThenLastReleasedFirst ==
    [][ /\ (poolCall'.op = "release" /\ poolCall'.id \in BoundIds)
             => /\ instancePool'.freeIds
                      = Append(instancePool.freeIds, poolCall'.id)
                /\ instancePool'.nextId = instancePool.nextId
        /\ poolCall'.op = "acquire"
             => IF instancePool.freeIds # << >>
                THEN /\ poolCall'.ret
                           = instancePool.freeIds[Len(instancePool.freeIds)]
                     /\ instancePool'.nextId = instancePool.nextId
                     /\ instancePool'.freeIds
                           = SubSeq(instancePool.freeIds, 1,
                                    Len(instancePool.freeIds) - 1)
                ELSE IF poolCall'.ret # Null
                THEN /\ poolCall'.ret = instancePool.nextId
                     /\ poolCall'.ret <= instancePool.maxInstances - 1
                     /\ instancePool'.nextId = instancePool.nextId + 1
                ELSE instancePool.nextId = instancePool.maxInstances
      ]_vars

\* ids 0 and 1 were issued by the counter, both were released, and acquire
\* has returned one of them while the other still waits
C17_Witness ==
    /\ poolCall.op = "acquire"
    /\ instancePool.nextId = 2
    /\ Len(instancePool.freeIds) = 1
    /\ {poolCall.ret} \cup FreeSet(instancePool) = {0, 1}
    /\ BoundIds = {}

\* C18: after every sequence of acquire, setData, release and getData calls
\* the free list holds no id twice, no id is both in the free list and
\* bound, and every free or bound id lies in [0, capacity).
C18_FreeOrBoundNeverBoth ==
    /\ \A i, j \in DOMAIN instancePool.freeIds :
          i # j => instancePool.freeIds[i] # instancePool.freeIds[j]
    /\ FreeSet(instancePool) \cap BoundIds = {}
    /\ \A id \in FreeSet(instancePool) \cup BoundIds :
          0 <= id /\ id < instancePool.maxInstances

----------------------------------------------------------------------------
(* Properties of the collision cache (checked under SpecCollision) *)

\* the last operation was the completion of a computeAllCollisionData()
AfterComputeAll == lastOp = "computeAll" \/ lastOp = "computeAllOver"

\* C19: when computeAllCollisionData() completes, the cache holds exactly
\* (2^(levels-1))^2 entries, one for each index (x, z) with
\* 0 <= x, z < 2^(levels-1), and each entry, r being the collision
\* resolution, has rows = cols = r + 1 and (r + 1) * (r + 1) heights,
\* whatever the cache held before.
C19_ComputeAllFillsEveryChunk ==
    AfterComputeAll =>
        LET numChunks == 2 ^ (config.levels - 1)
            r == collisionResolution
        IN /\ DOMAIN collisionCache
                 = (0..(numChunks - 1)) \X (0..(numChunks - 1))
           /\ Cardinality(DOMAIN collisionCache) = numChunks * numChunks
           /\ \A key \in DOMAIN collisionCache :
                 /\ collisionCache[key].index = [ x |-> key[1], z |-> key[2] ]
                 /\ collisionCache[key].rows = r + 1
                 /\ collisionCache[key].cols = r + 1
                 /\ DOMAIN collisionCache[key].heights
                       = 1..((r + 1) * (r + 1))

\* a second pass at the largest resolution replaced the entries of a first
\* one, over a grid of at least 2 x 2 chunks
C19_Witness ==
    /\ lastOp = "computeAllOver"
    /\ config.levels >= 2
    /\ \A r \in Resolutions : r <= collisionResolution
    /\ heightmapImageData # NoImageData

\* C20: setCollisionResolution(r) leaves the cache empty, so that
\* getChunkCollisionData returns null for every index, and the cache gets
\* entries again only from a computeAllCollisionData() called after it.
C20_EmptyUntilComputeAllCalledAgain ==
    [][ /\ lastOp' = "setCollisionResolution"
             => \A x, z \in 0..(2 ^ (config.levels - 1)) :
                   <<x, z>> \notin DOMAIN collisionCache'
        /\ (DOMAIN collisionCache = {} /\ DOMAIN collisionCache' # {})
             => ~Head(computePending).resolutionSet
      ]_vars

\* C21: in every reachable state every entry of the cache has
\* rows = cols = collisionResolution + 1, the current resolution, also when
\* setCollisionResolution is called while computeAllCollisionData() calls
\* are suspended.
C21_CacheSharesCurrentResolution ==
    \A key \in DOMAIN collisionCache :
        /\ collisionCache[key].rows = collisionResolution + 1
        /\ collisionCache[key].cols = collisionResolution + 1

\* the cache was filled, at another resolution than the initial one, while
\* a call made before the last setCollisionResolution is still suspended
C21_Witness ==
    /\ DOMAIN collisionCache # {}
    /\ collisionResolution # DefaultCollisionResolution
    /\ computePending # << >>
    /\ Head(computePending).resolutionSet

\* the operations that replace the height source
HeightSourceOps == {"setHeightMap", "updateHeightMapFromCanvas", "loadHeightMap"}

\* C22: when setHeightMap, updateHeightMapFromCanvas or loadHeightMap has
\* changed the height source, the cache is empty and no height snapshot is
\* retained, so that nothing computed from the previous source is returned
\* by getChunkCollisionData, getAllCollisionData or getHeightAt.
C22_HeightSourceChangeInvalidates ==
    [][ (lastOp' \in HeightSourceOps /\ heightMap' # heightMap)
            => /\ DOMAIN collisionCache' = {}
               /\ heightmapImageData' = NoImageData
      ]_vars

\* C23: in every reachable state every entry of the cache has maxHeight
\* equal to config.maxHeight: setMaxHeight leaves no entry that was
\* denormalized with an older maximum height.
C23_CacheSharesCurrentMaxHeight ==
    \A key \in DOMAIN collisionCache :
        collisionCache[key].maxHeight = config.maxHeight

\* the point (x, z) lies outside the world square on either axis
OutsideWorld(x, z) ==
    LET h == config.worldSize \div 2
    IN x < -h \/ x > h \/ z < -h \/ z > h

\* C24: a call of getHeightAt(x, z) returns a number and changes no state;
\* it returns 0 when no height snapshot is held (none extracted yet, or
\* invalidated since) and 0 when x or z lies outside
\* [-worldSize/2, worldSize/2].
C24_GetHeightAtDefaultsToZero ==
    [][ heightQuery'.called
            => /\ UNCHANGED <<config, nodes, hasRoot, instancePool, needsUpdate,
                              meshCount, instanceUVTransforms, instanceMatrix, isInitialized,
                              initPhase, currentCamera, collisionCallback,
                              callbackLog, updates, collisionVars>>
               /\ heightQuery'.ret \in 0..(255 * config.maxHeight)
               /\ heightmapImageData = NoImageData => heightQuery'.ret = 0
               /\ OutsideWorld(heightQuery'.x, heightQuery'.z)
                     => heightQuery'.ret = 0
      ]_vars

\* a query outside the world square, on both axes, returned 0 while a
\* snapshot of the second image was held
C24_Witness ==
    /\ heightQuery.called
    /\ heightQuery.ret = 0
    /\ heightmapImageData = SecondImage
    /\ heightQuery.x > config.worldSize \div 2
    /\ heightQuery.z < -(config.worldSize \div 2)

\* the operations on the same TerrainLOD that C26 names
InterferingOps ==
    {"setHeightMap", "updateHeightMapFromCanvas", "loadHeightMap",
     "setCollisionResolution", "setMaxHeight", "dispose"}

\* C26: between the call of computeAllCollisionData() and the population of
\* the cache no setHeightMap, updateHeightMapFromCanvas, loadHeightMap,
\* setCollisionResolution, setMaxHeight or dispose takes effect, and the
\* heights are sampled from the snapshot that the call extracted (a snapshot
\* is held when the cache is populated).
C26_ComputeAllRunsToCompletion ==
    [][ /\ computePending # << >> => lastOp' \notin InterferingOps
        /\ lastOp' \in {"computeAll", "computeAllOver"}
              => heightmapImageData # NoImageData
      ]_vars

RECURSIVE FinestNodes(_)
\* the nodes of level levels - 1 that splitting n and every descendant
\* produces
FinestNodes(n) ==
    IF n.level >= config.levels - 1 THEN {n}
    ELSE UNION { FinestNodes(childNode(n, i)) : i \in 1..4 }

\* C32: the entry cached for index (i, j) has this index, size chunkSize =
\* worldSize / 2^(levels-1) and position i * chunkSize - worldSize/2 +
\* chunkSize/2 (j for z): the centre and size of the finest-level quadtree
\* node of that cell.  Its samples span the cell: the first is taken at
\* centre - chunkSize/2 and the last at centre + chunkSize/2 on both axes.
C32_EntryCoversFinestCell ==
    LET W == config.worldSize
        numChunks == 2 ^ (config.levels - 1)
        chunkSize == W \div numChunks
        finest == FinestNodes(NewQuadtreeNode(0, 0, W, 0))
    IN \A key \in DOMAIN collisionCache :
          LET e == collisionCache[key]
              cx == key[1] * chunkSize - W \div 2 + chunkSize \div 2
              cz == key[2] * chunkSize - W \div 2 + chunkSize \div 2
          IN /\ e.index = [ x |-> key[1], z |-> key[2] ]
             /\ e.size = chunkSize
             /\ e.position.x = cx /\ e.position.z = cz
             /\ \E n \in finest :
                   /\ ChunkIndex(n) = key
                   /\ n.x = e.position.x /\ n.z = e.position.z
                   /\ n.size = e.size
             /\ AfterComputeAll =>
                   /\ e.heights[1]
                         = getHeightAt(2 * cx - chunkSize, 2 * cz - chunkSize, 2)
                   /\ e.heights[e.rows * e.cols]
                         = getHeightAt(2 * cx + chunkSize, 2 * cz + chunkSize, 2)

\* the cache of a grid of chunks was filled from a snapshot of the second
\* image at the largest resolution
C32_Witness ==
    /\ AfterComputeAll
    /\ config.levels >= 2
    /\ heightmapImageData = SecondImage
    /\ \A r \in Resolutions : r <= collisionResolution
    /\ <<1, 0>> \in DOMAIN collisionCache

----------------------------------------------------------------------------
(* Properties of the configuration and of the tree (checked under Spec) *)

\* C25: an invalid configuration is never accepted: no terrain is built on,
\* and no setter leaves a built terrain with, worldSize <= 0, levels < 1,
\* lodDistanceRatio <= 0, maxChunks <= 0 or a collision resolution outside
\* the enumeration.
C25_InvalidConfigurationRejected ==
    hasRoot =>
        /\ config.worldSize > 0
        /\ config.levels >= 1
        /\ config.lodDistanceRatio > 0
        /\ config.maxChunks > 0
        /\ collisionResolution \in Resolutions

\* the state of a node in the spec's node state machine
Kind(n) ==
    IF n.isLeaf
    THEN IF n.instanceId = -1 THEN "LeafUnassigned" ELSE "LeafAssigned"
    ELSE IF n.instanceId = -1 THEN "Internal" ELSE "InternalAssigned"

\* acquire succeeds, split (of either kind of leaf), merge
Transitions ==
    { <<"LeafUnassigned", "LeafAssigned">>, <<"LeafAssigned", "Internal">>,
      <<"LeafUnassigned", "Internal">>, <<"Internal", "LeafUnassigned">> }

\* what one update() makes of a node: it visits the node once and there
\* takes one transition, or merges it and then acquires a slot for it
PassTransitions == Transitions \cup { <<"Internal", "LeafAssigned">> }

\* the nodes of the subtree of p
Subtree(ns, p) == { q \in DOMAIN ns : IsPrefix(p, q) }

\* C27: each node moves only along Leaf-Unassigned -> Leaf-Assigned,
\* Leaf-Assigned or Leaf-Unassigned -> Internal and Internal ->
\* Leaf-Unassigned; no update, no merge of an ancestor and no dispose makes
\* another transition, none takes a Leaf-Assigned node back to
\* Leaf-Unassigned, and a new node (the root, a child) is Leaf-Unassigned.
C27_OnlyListedTransitions ==
    [][ /\ \A p \in DOMAIN nodes \cap DOMAIN nodes' :
              \/ Kind(nodes'[p]) = Kind(nodes[p])
              \/ <<Kind(nodes[p]), Kind(nodes'[p])>> \in PassTransitions
        /\ \A p \in DOMAIN nodes' \ DOMAIN nodes :
              \/ Kind(nodes'[p]) = "LeafUnassigned"
              \/ <<"LeafUnassigned", Kind(nodes'[p])>> \in PassTransitions
        /\ Kind(NewQuadtreeNode(0, 0, config.worldSize, 0)) = "LeafUnassigned"
      ]_vars

\* C27 as amended: the same, but dispose takes a Leaf-Assigned node to
\* Leaf-Unassigned while it stays a leaf: TerrainLOD.dispose() does so to
\* every leaf of the tree, which stays in place, and a merge does so to the
\* leaves below the merged node just before they are dropped.  No other
\* operation does, and dispose makes no other transition.
C27_ListedTransitionsAndDispose ==
    [][ /\ \A p \in DOMAIN nodes \cap DOMAIN nodes' :
              \/ Kind(nodes'[p]) = Kind(nodes[p])
              \/ /\ lastOp' # "dispose"
                 /\ <<Kind(nodes[p]), Kind(nodes'[p])>> \in PassTransitions
              \/ /\ lastOp' = "dispose"
                 /\ Kind(nodes[p]) = "LeafAssigned"
                 /\ Kind(nodes'[p]) = "LeafUnassigned"
        /\ lastOp' = "dispose"
              => \A p \in DOMAIN nodes' : nodes'[p].instanceId = -1
        /\ \A p \in DOMAIN nodes' \ DOMAIN nodes :
              \/ Kind(nodes'[p]) = "LeafUnassigned"
              \/ <<"LeafUnassigned", Kind(nodes'[p])>> \in PassTransitions
        /\ \A p \in DOMAIN nodes \cap DOMAIN nodes' :
              (~nodes[p].isLeaf /\ nodes'[p].isLeaf)
                 => LET d == disposeEach(PassState, nodes[p].children, 1)
                    IN \A q \in Subtree(nodes, p) \ {p} :
                          /\ d.nodes[q].instanceId = -1
                          /\ d.nodes[q].isLeaf = nodes[q].isLeaf
        /\ Kind(NewQuadtreeNode(0, 0, config.worldSize, 0)) = "LeafUnassigned"
      ]_vars

\* dispose() has just taken the slot of a root that is a leaf, after an
\* update; the pool has slots, so the root held one
C27_Witness ==
    /\ lastOp = "dispose"
    /\ updates > 0
    /\ config.maxChunks > 0
    /\ hasRoot
    /\ Kind(nodes[RootPath]) = "LeafUnassigned"

\* C28: for every leaf that holds a slot, the record bound to the slot and
\* the three entries of the UV array at the slot carry the leaf's x, z and
\* size and scale = size / worldSize, offsetU = (x + worldSize/2)/worldSize
\* - scale/2, offsetV = (z + worldSize/2)/worldSize - scale/2 (here as
\* numerators over worldSize): the minimum corner of the leaf, with
\* 0 <= offsetU, offsetV and offsetU + scale, offsetV + scale <= 1.
C28_SlotCarriesLeafUVTransform ==
    \A p \in Leaves :
        LET n == nodes[p]
            W == config.worldSize
            scale == n.size
            offsetU == (n.x + W \div 2) - scale \div 2
            offsetV == (n.z + W \div 2) - scale \div 2
        IN n.instanceId # -1 =>
              /\ n.instanceId \in BoundIds
              /\ instancePool.activeInstances[n.instanceId]
                    = [ x |-> n.x, z |-> n.z, size |-> n.size,
                        uvScale |-> scale, uvOffsetX |-> offsetU,
                        uvOffsetY |-> offsetV ]
              /\ n.instanceId \in DOMAIN instanceUVTransforms
              /\ instanceUVTransforms[n.instanceId]
                    = <<scale, offsetU, offsetV>>
              /\ 0 <= offsetU /\ offsetU + scale <= W
              /\ 0 <= offsetV /\ offsetV + scale <= W

\* a leaf of the finest level of three holds a slot, and its minimum corner
\* is off both edges of the world
C28_Witness ==
    /\ config.levels >= 3
    /\ \E p \in Leaves :
          /\ nodes[p].level = config.levels - 1
          /\ nodes[p].instanceId \in 0..(config.maxChunks - 1)
          /\ instanceUVTransforms[nodes[p].instanceId][2] > 0
          /\ instanceUVTransforms[nodes[p].instanceId][3] > 0

\* C29: after every update() call that ran on an initialized terrain, the
\* draw-instance count of the mesh is the highest bound id plus one (0 when
\* no id is bound), whatever splits, merges and failed acquisitions
\* happened since the previous update.
C29_CountIsHighestActiveIdPlusOne ==
    AfterUpdate =>
        /\ \A id \in BoundIds : id < meshCount
        /\ meshCount = 0 \/ meshCount - 1 \in BoundIds

\* after an update the count covers a slot that is released and not reused,
\* and a leaf is without a slot
C29_Witness ==
    /\ AfterUpdate
    /\ meshCount > Cardinality(BoundIds)
    /\ Slotless(nodes) # {}

\* C30: what this terrain builds depends on its own configuration and on
\* the cameras passed to its own update only, and on no camera during its
\* initialization: when init() completes the tree is the one built without
\* a camera, the root as a single leaf, whatever cameras other TerrainLOD
\* instances were updated with.
C30_InitIndependentOfOtherInstances ==
    lastOp = "init" =>
        LET alone == QuadtreeNode_update(
                         [ nodes |-> [ q \in {RootPath} |->
                               NewQuadtreeNode(0, 0, config.worldSize, 0) ],
                           pool |-> NewInstancePool(config.maxChunks),
                           uv |-> NewUVTransforms(config.maxChunks),
                           matrix |-> NewInstanceMatrix(config.maxChunks),
                           needsUpdate |-> FALSE, events |-> << >> ],
                         RootPath, NoCamera)
        IN /\ Paths = {RootPath}
           /\ nodes = alone.nodes

\* C31: after every update call the ids bound in the pool are exactly the
\* instanceIds held by the leaves of the tree: a merge has released the slot
\* of every leaf below the merged node, at every depth, and no id stays
\* bound for a node that is no longer in the tree.
C31_NoSlotLeaks ==
    AfterUpdate =>
        BoundIds = { nodes[p].instanceId : p \in Leaves } \ {-1}

\* an update merged a tree two levels deep back into the root: every slot
\* but the root's is in the free list
C31_Witness ==
    /\ AfterUpdate
    /\ Paths = {RootPath}
    /\ config.maxChunks = MaxChunks
    /\ Len(instancePool.freeIds) = MaxChunks - 1
    /\ BoundIds = {nodes[RootPath].instanceId}

\* the scale of matrix m is zero on x and z
ZeroScale(m) == m.sx = 0 /\ m.sz = 0

\* C33: after an update every slot index below the draw-instance count of
\* the mesh that is not bound in the pool has a zero-scale instance matrix,
\* and a slot that is not bound keeps its zero-scale matrix until its id is
\* acquired again.
C33_ReleasedSlotsAreHidden ==
    [][ /\ lastOp' = "update"
             => \A id \in 0..(meshCount' - 1) :
                   id \notin DOMAIN instancePool'.activeInstances
                      => ZeroScale(instanceMatrix'[id])
        /\ \A id \in DOMAIN instanceMatrix :
              ( /\ id \notin BoundIds
                /\ id \notin DOMAIN instancePool'.activeInstances
                /\ ZeroScale(instanceMatrix[id]) )
                 => instanceMatrix'[id] = instanceMatrix[id]
      ]_vars

\* after an update a slot below the count is released and not reused: its
\* matrix is the zero-scale one removeInstance wrote
C33_Witness ==
    /\ AfterUpdate
    /\ \E id \in 0..(meshCount - 1) :
          /\ id \notin BoundIds
          /\ instanceMatrix[id] = zeroScaleMatrix

\* C34 (checked under SpecSufficient): when update(p) directly follows an
\* update(p) with the same p and maxChunks is at least the number of leaves
\* of the tree, every leaf holds a slot after it; and an update(p) that
\* follows an update(p) which left every leaf with a slot changes nothing.
C34_ConvergesInTwoUpdates ==
    [][ ( /\ lastOp = "update" /\ lastOp' = "update"
          /\ updates' = updates + 1
          /\ currentCamera' = currentCamera )
            => /\ config.maxChunks
                     >= Cardinality({ p \in DOMAIN nodes' : nodes'[p].isLeaf })
                  => Slotless(nodes') = {}
               /\ Slotless(nodes) = {}
                  => UNCHANGED <<nodes, instancePool, instanceUVTransforms,
                                 instanceMatrix, meshCount, needsUpdate>>
      ]_vars

\* a first update(p) left a leaf without a slot although the capacity is
\* the number of leaves: an earlier leaf was visited while the slots of a
\* subtree merged later in the pass were still bound; a second update(p)
\* can follow
C34_Witness ==
    /\ AfterUpdate
    /\ updates < MaxUpdates
    /\ Slotless(nodes) # {}
    /\ config.maxChunks >= Cardinality(Leaves)

\* C35 (checked under Spec): dispose is final: in the state dispose() leaves
\* and in the state any later step leads to, isInitialized is false and the
\* pool has no bound id, also when init is still awaiting its textures.
C35_DisposeIsFinal ==
    [][ lastOp = "dispose"
          => /\ ~isInitialized /\ BoundIds = {}
             /\ ~isInitialized' /\ DOMAIN instancePool'.activeInstances = {} ]_vars

\* a call of update(camera): the pass ran or the call was skipped
UpdateCalled ==
    \/ lastOp' = "updateSkipped"
    \/ lastOp' = "update" /\ updates' = updates + 1

\* C36 (checked under Spec): update(camera) called while isInitialized is
\* false (init pending, init failed, or dispose() called) changes neither
\* the tree, the pool, the draw count, needsUpdate nor the shared camera.
C36_UpdateBeforeInitIsNoOp ==
    [][ ~isInitialized /\ UpdateCalled
          => UNCHANGED <<nodes, hasRoot, instancePool, instanceUVTransforms,
                         instanceMatrix, meshCount, needsUpdate,
                         currentCamera>> ]_vars

\* update() was called on a disposed terrain: the root is still referenced
\* and only isInitialized holds the pass back
C36_Witness ==
    /\ lastOp = "updateSkipped"
    /\ ~isInitialized
    /\ hasRoot
    /\ initPhase = "done"

\* C37 (checked under SpecEmit): every onChunkExitLOD0 the callback received
\* for an index follows an onChunkEnterLOD0 it received for that index, with
\* no other exit for the index in between.
C37_ExitFollowsEnter ==
    \A i \in 1..Len(callbackLog) :
        callbackLog[i].kind = "exit"
            => \E j \in 1..(i - 1) :
                  /\ callbackLog[j] = [kind |-> "enter",
                                       index |-> callbackLog[i].index]
                  /\ \A k \in (j + 1)..(i - 1) :
                        callbackLog[k] # [kind |-> "exit",
                                          index |-> callbackLog[i].index]

\* a call of computeAllCollisionData(): rejected, or run up to its await
ComputeAllCalled ==
    lastOp' \in {"computeAllRejected", "computeAllStart"}

\* C38 (checked under SpecCollision): computeAllCollisionData() called while
\* heightMap is null is rejected ('Heightmap not loaded yet') and leaves the
\* collision cache and the height snapshot as they were; no call is left
\* suspended.
C38_ComputeAllWithoutHeightmapRejects ==
    [][ heightMap = NoTexture /\ ComputeAllCalled
          => /\ lastOp' = "computeAllRejected"
             /\ UNCHANGED <<collisionCache, heightmapImageData,
                            computePending>> ]_vars

\* the call was made after init() failed on the heightmap
C38_Witness ==
    /\ lastOp = "computeAllRejected"
    /\ heightMap = NoTexture
    /\ initPhase = "failed"

\* TerrainLOD.getStats() evaluated on a pool
TerrainLOD_getStats(pool) ==
    [ instances |-> getStats(pool), drawCalls |-> 1, materials |-> 1,
      geometries |-> 1 ]

\* C39 (checked under Spec): in every state init, update and dispose lead
\* to, getStats() reports instances.active + instances.available =
\* instances.total and instances.total <= maxChunks; instances.total
\* decreases in no step except in dispose(), which resets it to 0.
C39_StatsAccounting ==
    [][ LET before == TerrainLOD_getStats(instancePool).instances
            after  == TerrainLOD_getStats(instancePool').instances
        IN /\ after.active + after.available = after.total
           /\ after.total <= config'.maxChunks
           /\ \/ after.total >= before.total
              \/ lastOp' = "dispose" /\ after.total = 0 ]_vars

\* dispose() reset the counters of a pool that had released ids: the draw
\* count still shows that slots were bound
C39_Witness ==
    /\ lastOp = "dispose"
    /\ updates > 0
    /\ meshCount > 1
    /\ TerrainLOD_getStats(instancePool).instances
          = [active |-> 0, available |-> 0, total |-> 0]

\* twice the centre coordinate of the finest-level cell with index i on an
\* axis, for a tree of the given number of levels
FinestCentre2(i, levels) ==
    LET cellSize == config.worldSize \div (2 ^ (levels - 1))
    IN 2 * i * cellSize + cellSize - config.worldSize

\* node n's square contains the finest-level cell (i, j)
CoversCell(n, i, j, levels) ==
    /\ 2 * n.x - n.size <= FinestCentre2(i, levels)
    /\ FinestCentre2(i, levels) < 2 * n.x + n.size
    /\ 2 * n.z - n.size <= FinestCentre2(j, levels)
    /\ FinestCentre2(j, levels) < 2 * n.z + n.size

\* C40 (checked under Spec): after every update call every finest-level
\* cell of the world square lies in exactly one leaf, and every node has
\* size = worldSize / 2^level, whatever viewer positions and
\* lodDistanceRatio values came before.
C40_LeavesPartitionWorld ==
    [][ (lastOp' = "update" /\ updates' = updates + 1)
          => /\ \A i, j \in 0..(2 ^ (config.levels - 1) - 1) :
                   Cardinality({ p \in DOMAIN nodes' :
                                   /\ nodes'[p].isLeaf
                                   /\ CoversCell(nodes'[p], i, j, config.levels) })
                     = 1
             /\ \A p \in DOMAIN nodes' :
                   nodes'[p].size * (2 ^ nodes'[p].level) = config.worldSize
      ]_vars

\* after a second update the tree is split unevenly: two leaves are
\* quadrants of the world and another is a quarter of a quadrant
C40_Witness ==
    /\ AfterUpdate
    /\ updates = 2
    /\ \E p, q, r \in Leaves :
          /\ nodes[p].level = 1
          /\ nodes[r].level = 1 /\ r # p
          /\ nodes[q].level = 2
    /\ config.levels = MaxLevels

====
